---- MODULE Spec2Model ----
(***************************************************************************)
(* A model of the gamesense client: the envelope codec (send_data), the    *)
(* request assembly of the raw client, and the heartbeat lifecycle of the  *)
(* facade client (GameSenseClient).                                        *)
(***************************************************************************)
EXTENDS Integers, Sequences, FiniteSets, TLC

VARIABLES
    \* ---- envelope codec (raw_client.rs send_data) ----
    preserve_order, \* build feature of serde_json: Map iterates in insertion order
    response,       \* the outcome of the HTTP exchange handed to send_data
    decoded,        \* result of send_data on response, or NoResult
    \* ---- request assembly (raw_client.rs protocol methods) ----
    args,           \* the caller's arguments
    request,        \* the POST that was issued for args, or NoRequest
    \* ---- facade client (client.rs GameSenseClient) ----
    client,         \* "none", "building" (inside new), "live", "failed", "dropped"
    game,           \* field game
    heartbeat,      \* field heartbeat: 0 for None, else the id of the task of the handle
    tasks,          \* the tasks spawned by start_heartbeat, by id
    call,           \* the asynchronous facade call in progress
    result,         \* what the last completed facade call returned
    reply,          \* the response that completed the last exchange of a facade call
    stops,          \* stop_heartbeat calls since the last start_heartbeat
    registered,     \* a register_game exchange of this client has succeeded
    \* ---- the interval of one heartbeat task (client.rs start_heartbeat) ----
    now,            \* the clock, in seconds since the task was spawned
    interval,       \* the tokio Interval of the task: its next deadline
    beat            \* the loop of the task: where it is, and its last tick and POST

codecVars == <<preserve_order, response, decoded>>
requestVars == <<args, request>>
facadeVars == <<client, game, heartbeat, tasks, call, result, reply, stops,
               registered>>
timerVars == <<now, interval, beat>>
vars == <<preserve_order, response, decoded, args, request,
          client, game, heartbeat, tasks, call, result, reply, stops,
          registered, now, interval, beat>>

-----------------------------------------------------------------------------
(* Bounds *)

\* most members of a generated response object
MaxMembers == 2
\* most tasks start_heartbeat spawns in one run
MaxTasks == 2
\* most stop_heartbeat calls in a row
MaxStops == 2
\* the clock stops at this many seconds
MaxTime == 35

-----------------------------------------------------------------------------
(* JSON values: serde_json::Value *)

EmptyMap == [k \in {} |-> 0]

JV(t, s, n, o) == [t |-> t, s |-> s, n |-> n, o |-> o]
JNull == JV("null", "", 0, EmptyMap)
JStr(s) == JV("str", s, 0, EmptyMap)
JNum(n) == JV("num", "", n, EmptyMap)
JBool(b) == JV(IF b THEN "true" ELSE "false", "", 0, EmptyMap)
\* an array with the elements of the sequence a
JArrOf(a) == JV("arr", "", 0, a)
JArr == JArrOf(<<>>)
\* the array of the n numbers of a byte buffer (the bytes are not modelled)
JBytes(n) == JV("bytes", "", n, EmptyMap)
JObj(o) == JV("obj", "", 0, o)

Digit(d) ==
    CASE d = 0 -> "0" [] d = 1 -> "1" [] d = 2 -> "2" [] d = 3 -> "3"
      [] d = 4 -> "4" [] d = 5 -> "5" [] d = 6 -> "6" [] d = 7 -> "7"
      [] d = 8 -> "8" [] d = 9 -> "9"

RECURSIVE NatToString(_)
NatToString(n) ==
    IF n < 10 THEN Digit(n) ELSE NatToString(n \div 10) \o Digit(n % 10)

IntToString(n) == IF n < 0 THEN "-" \o NatToString(-n) ELSE NatToString(n)

\* as_str with the string case lost: every value goes through to_string
as_str_never(v) == [some |-> FALSE, v |-> ""]

\* Value::as_str: Some(s) for a JSON string, None otherwise
as_str(v) == IF v.t = "str" THEN [some |-> TRUE, v |-> v.s]
                            ELSE [some |-> FALSE, v |-> ""]

\* Value::to_string: the JSON text of a value
to_string(v) ==
    CASE v.t = "str" -> "\"" \o v.s \o "\""
      [] v.t = "num" -> IntToString(v.n)
      [] v.t = "null" -> "null"
      [] v.t = "true" -> "true"
      [] v.t = "false" -> "false"
      [] v.t = "arr" -> "[]"
      [] v.t = "obj" -> "{}"

-----------------------------------------------------------------------------
(* Response text, as a sequence of lexical tokens *)

Tok(t, s, n) == [t |-> t, s |-> s, n |-> n]
LBrace == Tok("lbrace", "", 0)
RBrace == Tok("rbrace", "", 0)
LBrack == Tok("lbrack", "", 0)
RBrack == Tok("rbrack", "", 0)
Colon == Tok("colon", "", 0)
Comma == Tok("comma", "", 0)
Ws == Tok("ws", " ", 0)
Word(s) == Tok("word", s, 0)
StrTok(s) == Tok("str", s, 0)
NumTok(n) == Tok("num", "", n)

\* the text of a JSON value
ValueText(v) ==
    CASE v.t = "str" -> <<StrTok(v.s)>>
      [] v.t = "num" -> <<NumTok(v.n)>>
      [] v.t = "arr" -> <<LBrack, RBrack>>
      [] v.t = "obj" -> <<LBrace, RBrace>>
      [] OTHER -> <<Tok(v.t, "", 0)>>

RECURSIVE MembersText(_)
MembersText(ps) ==
    IF ps = <<>> THEN <<>>
    ELSE <<StrTok(ps[1][1]), Colon>> \o ValueText(ps[1][2])
           \o (IF Len(ps) > 1 THEN <<Comma>> ELSE <<>>)
           \o MembersText(Tail(ps))

\* the text of a JSON object with the members ps, in that order
ObjectText(ps) == <<LBrace>> \o MembersText(ps) \o <<RBrace>>

\* the engine's non-JSON 404 body
PageNotFound == <<Word("Page"), Ws, Word("not"), Ws, Word("found")>>

-----------------------------------------------------------------------------
(* serde_json::from_str::<Map<String, Value>> *)

\* JSON whitespace between tokens is insignificant
SkipWs(text) == SelectSeq(text, LAMBDA x : x.t # "ws")

ParseFail == [ok |-> FALSE, v |-> JNull, next |-> 0]

\* one JSON value starting at token i
ValueAt(toks, i) ==
    IF i > Len(toks) THEN ParseFail
    ELSE CASE toks[i].t = "str" -> [ok |-> TRUE, v |-> JStr(toks[i].s), next |-> i + 1]
           [] toks[i].t = "num" -> [ok |-> TRUE, v |-> JNum(toks[i].n), next |-> i + 1]
           [] toks[i].t \in {"null", "true", "false"} ->
                [ok |-> TRUE, v |-> JV(toks[i].t, "", 0, EmptyMap), next |-> i + 1]
           [] toks[i].t = "lbrack" /\ i < Len(toks) /\ toks[i + 1].t = "rbrack" ->
                [ok |-> TRUE, v |-> JArr, next |-> i + 2]
           [] toks[i].t = "lbrace" /\ i < Len(toks) /\ toks[i + 1].t = "rbrace" ->
                [ok |-> TRUE, v |-> JObj(EmptyMap), next |-> i + 2]
           [] OTHER -> ParseFail

\* Map::insert: a repeated key keeps its place and takes the later value
MapInsert(m, k, v) ==
    IF \E i \in 1..Len(m) : m[i][1] = k
    THEN [i \in 1..Len(m) |-> IF m[i][1] = k THEN <<k, v>> ELSE m[i]]
    ELSE Append(m, <<k, v>>)

MapFail == [ok |-> FALSE, map |-> <<>>]

\* the members of an object from token i on, up to the closing brace,
\* which must end the text
RECURSIVE ParseMembers(_, _, _)
ParseMembers(toks, i, acc) ==
    IF i + 1 > Len(toks) \/ toks[i].t # "str" \/ toks[i + 1].t # "colon"
    THEN MapFail
    ELSE LET val == ValueAt(toks, i + 2)
             j == val.next
         IN IF ~val.ok \/ j > Len(toks) THEN MapFail
            ELSE LET acc2 == MapInsert(acc, toks[i].s, val.v)
                 IN CASE toks[j].t = "comma" -> ParseMembers(toks, j + 1, acc2)
                      [] toks[j].t = "rbrace" ->
                           IF j = Len(toks) THEN [ok |-> TRUE, map |-> acc2]
                                            ELSE MapFail
                      [] OTHER -> MapFail

from_str(text) ==
    LET toks == SkipWs(text)
    IN IF Len(toks) < 2 \/ toks[1].t # "lbrace" THEN MapFail
       ELSE IF toks[2].t = "rbrace"
            THEN IF Len(toks) = 2 THEN [ok |-> TRUE, map |-> <<>>] ELSE MapFail
            ELSE ParseMembers(toks, 2, <<>>)

\* byte order of the keys the model uses
KeyOrder == <<"data", "error", "result">>
KeyRank(k) == CHOOSE i \in 1..Len(KeyOrder) : KeyOrder[i] = k

\* Map::iter().next(): the first entry in iteration order, which is the
\* order of insertion with serde_json's preserve_order feature and the
\* order of the keys without it
MapFirst(m, preserve) ==
    IF preserve THEN m[1]
    ELSE LET i == CHOOSE i \in 1..Len(m) :
                     \A j \in 1..Len(m) : KeyRank(m[i][1]) <= KeyRank(m[j][1])
         IN m[i]

-----------------------------------------------------------------------------
(* RawGameSenseClient::send_data, from the response on *)

Ok(value) == [tag |-> "Ok", kind |-> "value", msg |-> value]
Err(kind, msg) == [tag |-> "Err", kind |-> kind, msg |-> msg]
Panic(kind) == [tag |-> "Panic", kind |-> kind, msg |-> ""]
NoResult == [tag |-> "None", kind |-> "", msg |-> ""]

\* the HTTP exchange: a transport failure, or a body text
TransportFailure == [ok |-> FALSE, text |-> <<>>]
Body(text) == [ok |-> TRUE, text |-> text]

\* send_data that parses the body before it looks for the 404 text
send_data_parse_first(resp, preserve) ==
    IF ~resp.ok THEN Err("transport", "")
    ELSE LET data == from_str(resp.text)
         IN IF ~data.ok THEN Err("json", "")
            ELSE IF resp.text = PageNotFound THEN Err("endpoint", "Endpoint not found")
            ELSE IF data.map = <<>> THEN Panic("unwrap")
            ELSE LET key == MapFirst(data.map, preserve)[1]
                     val == MapFirst(data.map, preserve)[2]
                     value == IF as_str(val).some THEN as_str(val).v
                                                  ELSE to_string(val)
                 IN IF key = "error" THEN Err("engine", value) ELSE Ok(value)

send_data(resp, preserve) ==
    IF ~resp.ok THEN Err("transport", "")
    ELSE IF resp.text = PageNotFound THEN Err("endpoint", "Endpoint not found")
    ELSE LET data == from_str(resp.text)
         IN IF ~data.ok THEN Err("json", "")
            ELSE IF data.map = <<>> THEN Panic("unwrap")
            ELSE LET key == MapFirst(data.map, preserve)[1]
                     val == MapFirst(data.map, preserve)[2]
                     value == IF as_str(val).some THEN as_str(val).v
                                                  ELSE to_string(val)
                 IN IF key = "error" THEN Err("engine", value) ELSE Ok(value)


-----------------------------------------------------------------------------
(* Request assembly: the request structs and the raw client's methods *)

Some(v) == [some |-> TRUE, v |-> v]
NoneInt == [some |-> FALSE, v |-> 0]
NoneBool == [some |-> FALSE, v |-> FALSE]
NoneStr == [some |-> FALSE, v |-> ""]
NoneValue == [some |-> FALSE, v |-> JNull]

\* serde_json's value of a Rust value: json!(value), to_value
ToJson(ty, v) ==
    CASE ty = "int" -> JNum(v)
      [] ty = "bool" -> JBool(v)
      [] ty = "str" -> JStr(v)
      [] ty = "bytes" -> JBytes(v)
      [] ty = "value" -> v

\* serde's serialization of an Option field that is not skipped
OptionJson(opt, ty) == IF opt.some THEN ToJson(ty, opt.v) ELSE JNull

\* #[serde(skip_serializing_if = "Option::is_none")]
SkipNone(key, opt, ty) ==
    IF opt.some THEN key :> ToJson(ty, opt.v) ELSE EmptyMap

\* macro cond_argument!: insert the key when the option holds a value
cond_argument(data, key, opt, ty) ==
    IF opt.some THEN (key :> ToJson(ty, opt.v)) @@ data ELSE data

\* a POST of the JSON object data to http://{address}/{endpoint}
Post(endpoint, data) == [endpoint |-> endpoint, data |-> data]
NoRequest == [endpoint |-> "", data |-> EmptyMap]

\* EngineRequest::path of each request struct
RemoveGamePath == "remove_game"
RemoveEventPath == "remove_game_event"
RegisterGamePath == "game_metadata"
RegisterEventPath == "register_game_event"
HeartbeatPath == "game_heartbeat"
GameEventPath == "game_event"

\* serde::Serialize of the request structs
RemoveGameJson(r) == "game" :> JStr(r.game)
HeartbeatJson(r) == "game" :> JStr(r.game)
RemoveEventJson(r) == ("game" :> JStr(r.game)) @@ ("event" :> JStr(r.event))
RegisterGameJson(r) ==
    ("game" :> JStr(r.game))
      @@ SkipNone("game_display_name", r.display_name, "str")
      @@ SkipNone("developer", r.developer, "str")
      @@ SkipNone("deinitialize_timer_length_ms", r.timeout, "int")
RegisterEventJson(r) ==
    ("game" :> JStr(r.game)) @@ ("event" :> JStr(r.event))
      @@ ("min_value" :> OptionJson(r.min_value, "int"))
      @@ ("max_value" :> OptionJson(r.max_value, "int"))
      @@ ("icon_id" :> OptionJson(r.icon_id, "int"))
      @@ ("value_optional" :> OptionJson(r.value_optional, "bool"))
ScreenFrameDataJson(f) ==
    ("image-data-128x36" :> OptionJson(f.image_128x36, "bytes"))
      @@ ("image-data-128x40" :> OptionJson(f.image_128x40, "bytes"))
      @@ ("image-data-128x48" :> OptionJson(f.image_128x48, "bytes"))
      @@ ("image-data-128x52" :> OptionJson(f.image_128x52, "bytes"))
FrameContainerJson(c) == "frame" :> JObj(ScreenFrameDataJson(c.frame))
\* GameEvent<()>: the unit payload serializes as null
GameEventUnitJson(r) ==
    ("game" :> JStr(r.game)) @@ ("event" :> JStr(r.event)) @@ ("data" :> JNull)
GameEventFrameJson(r) ==
    ("game" :> JStr(r.game)) @@ ("event" :> JStr(r.event))
      @@ ("data" :> JObj(FrameContainerJson(r.data)))

\* Sendable::send of each request struct: serialize, post to its path
SendRemoveGame(r) == Post(RemoveGamePath, RemoveGameJson(r))
SendHeartbeat(r) == Post(HeartbeatPath, HeartbeatJson(r))
SendRemoveEvent(r) == Post(RemoveEventPath, RemoveEventJson(r))
SendRegisterGame(r) == Post(RegisterGamePath, RegisterGameJson(r))
SendRegisterEvent(r) == Post(RegisterEventPath, RegisterEventJson(r))
SendGameEventUnit(r) == Post(GameEventPath, GameEventUnitJson(r))
SendGameEventFrame(r) == Post(GameEventPath, GameEventFrameJson(r))

\* game_event that posts events with a frame to an endpoint of their own
game_event_by_frame(g, event, value, frame) ==
    LET inner == cond_argument("value" :> JNum(value), "frame", frame, "value")
    IN Post(IF frame.some THEN "game_event_frame" ELSE "game_event",
            ("game" :> JStr(g)) @@ ("event" :> JStr(event))
              @@ ("data" :> JObj(inner)))

\* the methods of RawGameSenseClient, up to the POST
game_event(g, event, value, frame) ==
    LET inner == cond_argument("value" :> JNum(value), "frame", frame, "value")
    IN Post("game_event",
            ("game" :> JStr(g)) @@ ("event" :> JStr(event))
              @@ ("data" :> JObj(inner)))

heartbeat_request(g) == Post("game_heartbeat", "game" :> JStr(g))

register_game(g, game_display_name, developer, deinitialize_timer_length_ms) ==
    SendRegisterGame([game |-> g, display_name |-> game_display_name,
                      developer |-> developer,
                      timeout |-> deinitialize_timer_length_ms])

remove_game(g) == SendRemoveGame([game |-> g])

bind_event(g, event, min_value, max_value, icon_id, value_optional, handlers) ==
    LET d0 == ("game" :> JStr(g)) @@ ("event" :> JStr(event))
                @@ ("handlers" :> JArrOf(handlers))
        d1 == cond_argument(d0, "min_value", min_value, "int")
        d2 == cond_argument(d1, "max_value", max_value, "int")
        d3 == cond_argument(d2, "icon_id", icon_id, "int")
        d4 == cond_argument(d3, "value_optional", value_optional, "bool")
    IN Post("bind_game_event", d4)

register_event(g, event, min_value, max_value, icon_id, value_optional) ==
    LET d0 == ("game" :> JStr(g)) @@ ("event" :> JStr(event))
        d1 == cond_argument(d0, "min_value", min_value, "int")
        d2 == cond_argument(d1, "max_value", max_value, "int")
        d3 == cond_argument(d2, "icon_id", icon_id, "int")
        d4 == cond_argument(d3, "value_optional", value_optional, "bool")
    IN Post("register_game_event", d4)

remove_event(g, event) == SendRemoveEvent([game |-> g, event |-> event])


-----------------------------------------------------------------------------
(* The facade client: GameSenseClient *)

Games == {"TESTGAME", "OTHER"}

\* the event operations, as the raw client call each one makes
facade_register_event(g, event) ==
    register_event(g, event, NoneInt, NoneInt, NoneInt, NoneBool)
facade_register_event_full(g, event, min_value, max_value, icon_id, value_optional) ==
    register_event(g, event, min_value, max_value, icon_id, value_optional)
facade_remove_event(g, event) == remove_event(g, event)
facade_bind_event(g, event, min_value, max_value, icon_id, value_optional, handlers) ==
    bind_event(g, event, min_value, max_value, icon_id, value_optional, handlers)
facade_trigger_event(g, event, value) == game_event(g, event, value, NoneValue)
facade_trigger_event_frame(g, event, value, frame) ==
    game_event(g, event, value, Some(frame))

EventOps == {"register_event", "register_event_full", "remove_event",
             "bind_event", "trigger_event", "trigger_event_frame"}

\* the request of an event operation, on the arguments the lifecycle uses
EventRequest(op, g) ==
    CASE op = "register_event" -> facade_register_event(g, "ev")
      [] op = "register_event_full" ->
           facade_register_event_full(g, "ev", Some(0), NoneInt, NoneInt, Some(TRUE))
      [] op = "remove_event" -> facade_remove_event(g, "ev")
      [] op = "bind_event" ->
           facade_bind_event(g, "ev", NoneInt, Some(9), Some(1), NoneBool,
                             <<JStr("handler")>>)
      [] op = "trigger_event" -> facade_trigger_event(g, "ev", 5)
      [] op = "trigger_event_frame" ->
           facade_trigger_event_frame(g, "ev", 5, JObj("image-data-128x36" :> JBytes(576)))

\* what the engine may answer in a lifecycle run
Replies ==
    {TransportFailure} \cup
    { Body(b) : b \in { ObjectText(<< <<"result", JStr("ok")>> >>),
                        ObjectText(<< <<"result", JNum(42)>> >>),
                        ObjectText(<< <<"error", JStr("boom")>> >>),
                        ObjectText(<<>>),
                        PageNotFound,
                        <<LBrace>> } }
NoReply == [ok |-> FALSE, text |-> <<Word("none")>>]

\* a task of start_heartbeat: where it is, whether abort() was called on it,
\* the game it holds, and the POST in flight
Unspawned == [st |-> "unspawned", abort |-> FALSE, game |-> "", req |-> NoRequest]
Running(t) == t.st \in {"tick", "polling", "send"}

\* a facade call: the operation, the exchange it awaits, the POSTs it has
\* issued, and (for new) how the remove_game exchange ended
Idle == [op |-> "none", stage |-> "idle", posts |-> <<>>, rm |-> "None"]
Awaiting(op, stage, posts, rm) ==
    [op |-> op, stage |-> stage, posts |-> posts, rm |-> rm]
Returned(op, r, c) ==
    [op |-> op, tag |-> r.tag, kind |-> r.kind, msg |-> r.msg,
     posts |-> c.posts, rm |-> c.rm]
NothingReturned == Returned("none", NoResult, Idle)

\* RawGameSenseClient::new succeeds, or fails where the address is discovered
RawNewOutcomes == {Ok("127.0.0.1:5000"), Err("discovery", "")}

FacadeInit ==
    /\ client = "none"
    /\ game = ""
    /\ heartbeat = 0
    /\ tasks = [t \in 1..MaxTasks |-> Unspawned]
    /\ call = Idle
    /\ result = NothingReturned
    /\ reply = NoReply
    /\ stops = 0
    /\ registered = FALSE


\* JoinHandle::abort on the task of handle h: a finished task is left alone
AbortHandle(ts, h) ==
    IF h # 0 /\ Running(ts[h]) THEN [ts EXCEPT ![h].abort = TRUE] ELSE ts

\* stop_heartbeat that takes the handle out of the field (Option::take)
stop_heartbeat_take(h, ts) ==
    IF h = 0
    THEN [res |-> Err("context", "Trying to stop uninitialized heartbeat thread"),
          heartbeat |-> h, tasks |-> ts]
    ELSE [res |-> Ok(""), heartbeat |-> 0, tasks |-> AbortHandle(ts, h)]

\* GameSenseClient::stop_heartbeat, on the handle h and the tasks ts
stop_heartbeat(h, ts) ==
    IF h = 0
    THEN [res |-> Err("context", "Trying to stop uninitialized heartbeat thread"),
          heartbeat |-> h, tasks |-> ts]
    ELSE [res |-> Ok(""), heartbeat |-> h, tasks |-> AbortHandle(ts, h)]

\* start_heartbeat that aborts the task of the handle it replaces
start_heartbeat_abort_old(h, ts, t, g) ==
    [heartbeat |-> t,
     tasks |-> [AbortHandle(ts, h) EXCEPT ![t] = [st |-> "tick", abort |-> FALSE,
                                                  game |-> g, req |-> NoRequest]]]

\* start_heartbeat that keeps the handle it already has
start_heartbeat_keep_handle(h, ts, t, g) ==
    [heartbeat |-> IF h # 0 THEN h ELSE t,
     tasks |-> [ts EXCEPT ![t] = [st |-> "tick", abort |-> FALSE,
                                  game |-> g, req |-> NoRequest]]]

\* GameSenseClient::start_heartbeat: spawn task t for game g and keep its
\* handle; the handle held before is dropped, which detaches its task
start_heartbeat(h, ts, t, g) ==
    [heartbeat |-> t,
     tasks |-> [ts EXCEPT ![t] = [st |-> "tick", abort |-> FALSE,
                                  game |-> g, req |-> NoRequest]]]

\* Drop for GameSenseClient: stop_heartbeat().ok()
drop(h, ts) == stop_heartbeat(h, ts).tasks

\* the arguments new is called with, besides the game
NewArgs == [game_display_name |-> "Test Game", developer |-> "dev",
            deinitialize_timer_length_ms |-> NoneInt]

\* from_game_name: a client without a heartbeat handle, or the failure of
\* RawGameSenseClient::new
FromGameName(g, raw) ==
    /\ client = "none" /\ call = Idle
    /\ IF raw.tag = "Ok"
       THEN /\ client' = "live" /\ game' = g /\ heartbeat' = 0
            /\ result' = Returned("from_game_name", Ok(""), Idle)
       ELSE /\ client' = "failed" /\ UNCHANGED <<game, heartbeat>>
            /\ result' = Returned("from_game_name", raw, Idle)
    /\ UNCHANGED <<tasks, call, reply, stops, registered>>
    /\ UNCHANGED <<codecVars, requestVars, timerVars>>

\* new that issues remove_game and register_game without awaiting the first
NewBeginConcurrent(g, raw) ==
    /\ client = "none" /\ call = Idle
    /\ IF raw.tag = "Ok"
       THEN /\ client' = "building" /\ game' = g /\ heartbeat' = 0
            /\ call' = Awaiting("new", "register_game",
                                <<remove_game(g),
                                  register_game(g, Some(NewArgs.game_display_name),
                                                Some(NewArgs.developer),
                                                NewArgs.deinitialize_timer_length_ms)>>,
                                "None")
            /\ UNCHANGED result
       ELSE /\ client' = "failed" /\ UNCHANGED <<game, heartbeat, call>>
            /\ result' = Returned("new", raw, Idle)
    /\ UNCHANGED <<tasks, reply, stops, registered>>
    /\ UNCHANGED <<codecVars, requestVars, timerVars>>

\* new, up to the await of remove_game
NewBegin(g, raw) ==
    /\ client = "none" /\ call = Idle
    /\ IF raw.tag = "Ok"
       THEN /\ client' = "building" /\ game' = g /\ heartbeat' = 0
            /\ call' = Awaiting("new", "remove_game", <<remove_game(g)>>, "None")
            /\ UNCHANGED result
       ELSE /\ client' = "failed" /\ UNCHANGED <<game, heartbeat, call>>
            /\ result' = Returned("new", raw, Idle)
    /\ UNCHANGED <<tasks, reply, stops, registered>>
    /\ UNCHANGED <<codecVars, requestVars, timerVars>>

\* new, from the answer to remove_game to the await of register_game:
\* .ok() discards an Err; a panic unwinds and drops the client
NewRemoved(resp) ==
    /\ call.op = "new" /\ call.stage = "remove_game"
    /\ LET r == send_data(resp, preserve_order)
           c == [call EXCEPT !.rm = r.tag]
       IN IF r.tag = "Panic"
          THEN /\ client' = "failed" /\ call' = Idle
               /\ tasks' = drop(heartbeat, tasks)
               /\ result' = Returned("new", r, c)
          ELSE /\ call' = Awaiting("new", "register_game",
                                   Append(call.posts,
                                          register_game(game,
                                                        Some(NewArgs.game_display_name),
                                                        Some(NewArgs.developer),
                                                        NewArgs.deinitialize_timer_length_ms)),
                                   r.tag)
               /\ UNCHANGED <<client, tasks, result>>
    /\ reply' = resp
    /\ UNCHANGED <<game, heartbeat, stops, registered>>
    /\ UNCHANGED <<codecVars, requestVars, timerVars>>

\* new, from the answer to register_game on: ? returns an Err and drops
\* the client
NewRegistered(resp) ==
    /\ call.op = "new" /\ call.stage = "register_game"
    /\ LET r == send_data(resp, preserve_order)
       IN IF r.tag = "Ok"
          THEN /\ client' = "live" /\ UNCHANGED tasks
               /\ result' = Returned("new", Ok(""), call)
               /\ registered' = TRUE
          ELSE /\ client' = "failed" /\ tasks' = drop(heartbeat, tasks)
               /\ result' = Returned("new", r, call)
               /\ UNCHANGED registered
    /\ call' = Idle
    /\ reply' = resp
    /\ UNCHANGED <<game, heartbeat, stops>>
    /\ UNCHANGED <<codecVars, requestVars, timerVars>>

StartHeartbeat ==
    /\ client = "live" /\ call = Idle
    /\ \E t \in 1..MaxTasks :
         /\ tasks[t].st = "unspawned"
         /\ \A u \in 1..(t - 1) : tasks[u].st # "unspawned"
         /\ heartbeat' = start_heartbeat(heartbeat, tasks, t, game).heartbeat
         /\ tasks' = start_heartbeat(heartbeat, tasks, t, game).tasks
    /\ result' = Returned("start_heartbeat", Ok(""), Idle)
    /\ stops' = 0
    /\ UNCHANGED registered
    /\ UNCHANGED <<client, game, call, reply>>
    /\ UNCHANGED <<codecVars, requestVars, timerVars>>

\* a stop_heartbeat that reports success when there is no handle
StopHeartbeatLenient ==
    /\ client = "live" /\ call = Idle
    /\ stops < MaxStops
    /\ heartbeat' = heartbeat
    /\ tasks' = AbortHandle(tasks, heartbeat)
    /\ result' = Returned("stop_heartbeat", Ok(""), Idle)
    /\ stops' = stops + 1
    /\ UNCHANGED registered
    /\ UNCHANGED <<client, game, call, reply>>
    /\ UNCHANGED <<codecVars, requestVars, timerVars>>

StopHeartbeat ==
    /\ client = "live" /\ call = Idle
    /\ stops < MaxStops
    /\ heartbeat' = stop_heartbeat(heartbeat, tasks).heartbeat
    /\ tasks' = stop_heartbeat(heartbeat, tasks).tasks
    /\ result' = Returned("stop_heartbeat", stop_heartbeat(heartbeat, tasks).res, Idle)
    /\ stops' = stops + 1
    /\ UNCHANGED registered
    /\ UNCHANGED <<client, game, call, reply>>
    /\ UNCHANGED <<codecVars, requestVars, timerVars>>

\* the client goes out of scope
Drop ==
    /\ client = "live" /\ call = Idle
    /\ tasks' = drop(heartbeat, tasks)
    /\ client' = "dropped"
    /\ UNCHANGED <<game, heartbeat, call, result, reply, stops, registered>>
    /\ UNCHANGED <<codecVars, requestVars, timerVars>>

\* an event operation that stops the heartbeat while it runs
EventCallStopping(op) ==
    /\ client = "live" /\ call = Idle
    /\ call' = Awaiting(op, "exchange", <<EventRequest(op, game)>>, "None")
    /\ tasks' = AbortHandle(tasks, heartbeat)
    /\ UNCHANGED <<client, game, heartbeat, result, reply, stops, registered>>
    /\ UNCHANGED <<codecVars, requestVars, timerVars>>

\* an event operation, up to the await of its exchange
EventCall(op) ==
    /\ client = "live" /\ call = Idle
    /\ call' = Awaiting(op, "exchange", <<EventRequest(op, game)>>, "None")
    /\ UNCHANGED <<client, game, heartbeat, tasks, result, reply, stops, registered>>
    /\ UNCHANGED <<codecVars, requestVars, timerVars>>

\* an event operation that discards the Err of its exchange
EventReturnSwallowed(resp) ==
    /\ call.op \in EventOps
    /\ LET r == send_data(resp, preserve_order)
       IN result' = Returned(call.op, IF r.tag = "Err" THEN Ok("") ELSE r, call)
    /\ reply' = resp
    /\ call' = Idle
    /\ UNCHANGED <<client, game, heartbeat, tasks, stops, registered>>
    /\ UNCHANGED <<codecVars, requestVars, timerVars>>

\* an event operation that posts again when its exchange fails
EventReturnRetry(resp) ==
    /\ call.op \in EventOps
    /\ IF send_data(resp, preserve_order).tag = "Err" /\ Len(call.posts) < 2
       THEN /\ call' = [call EXCEPT !.posts = Append(@, EventRequest(call.op, game))]
            /\ UNCHANGED result
       ELSE /\ result' = Returned(call.op, send_data(resp, preserve_order), call)
            /\ call' = Idle
    /\ reply' = resp
    /\ UNCHANGED <<client, game, heartbeat, tasks, stops, registered>>
    /\ UNCHANGED <<codecVars, requestVars, timerVars>>

\* an event operation returns what send_data returned
EventReturn(resp) ==
    /\ call.op \in EventOps
    /\ result' = Returned(call.op, send_data(resp, preserve_order), call)
    /\ reply' = resp
    /\ call' = Idle
    /\ UNCHANGED <<client, game, heartbeat, tasks, stops, registered>>
    /\ UNCHANGED <<codecVars, requestVars, timerVars>>

-----------------------------------------------------------------------------
(* The heartbeat task: loop { interval.tick().await; heartbeat().await.ok() } *)

\* the interval ticks and the runtime polls the task; an aborted task is
\* not polled again
TaskTick(t) ==
    /\ tasks[t].st = "tick" /\ ~tasks[t].abort
    /\ tasks' = [tasks EXCEPT ![t].st = "polling"]
    /\ UNCHANGED <<client, game, heartbeat, call, result, reply, stops, registered>>
    /\ UNCHANGED <<codecVars, requestVars, timerVars>>

\* the poll goes on to client.heartbeat(&game), which posts and suspends
TaskSend(t) ==
    /\ tasks[t].st = "polling"
    /\ tasks' = [tasks EXCEPT ![t].st = "send",
                              ![t].req = heartbeat_request(tasks[t].game)]
    /\ UNCHANGED <<client, game, heartbeat, call, result, reply, stops, registered>>
    /\ UNCHANGED <<codecVars, requestVars, timerVars>>

\* the exchange ends: .ok() discards the result and the loop goes round,
\* to a tick that is already due or to the wait for the next one; the
\* panic of send_data ends the task
TaskReply(t, resp, due) ==
    /\ tasks[t].st = "send" /\ ~tasks[t].abort
    /\ LET r == send_data(resp, preserve_order)
       IN tasks' = [tasks EXCEPT
                      ![t].st = IF r.tag = "Panic" THEN "panicked"
                                ELSE IF due THEN "polling" ELSE "tick",
                      ![t].req = NoRequest]
    /\ UNCHANGED <<client, game, heartbeat, call, result, reply, stops, registered>>
    /\ UNCHANGED <<codecVars, requestVars, timerVars>>

\* an aborted task that is dropped only at the await of the tick
TaskCancelAtTick(t) ==
    /\ tasks[t].abort /\ tasks[t].st = "tick"
    /\ tasks' = [tasks EXCEPT ![t].st = "cancelled", ![t].req = NoRequest]
    /\ UNCHANGED <<client, game, heartbeat, call, result, reply, stops, registered>>
    /\ UNCHANGED <<codecVars, requestVars, timerVars>>

\* an aborted task is dropped at the await it is suspended in
TaskCancel(t) ==
    /\ tasks[t].abort /\ tasks[t].st \in {"tick", "send"}
    /\ tasks' = [tasks EXCEPT ![t].st = "cancelled", ![t].req = NoRequest]
    /\ UNCHANGED <<client, game, heartbeat, call, result, reply, stops, registered>>
    /\ UNCHANGED <<codecVars, requestVars, timerVars>>

-----------------------------------------------------------------------------
(* The lifecycle of one client against an engine that answers anything *)

CodecIdle ==
    /\ preserve_order = FALSE
    /\ response = TransportFailure
    /\ decoded = NoResult

RequestIdle ==
    /\ args = [op |-> "none"]
    /\ request = NoRequest

\* no interval is being followed
TimerIdle ==
    /\ now = 0
    /\ interval = [deadline |-> 0]
    /\ beat = [pc |-> "tick", ticked |-> 0, last |-> -1]

Init == FacadeInit /\ CodecIdle /\ RequestIdle /\ TimerIdle

Next ==
    \/ \E g \in Games, raw \in RawNewOutcomes : FromGameName(g, raw)
    \/ \E g \in Games, raw \in RawNewOutcomes : NewBegin(g, raw)
    \/ \E resp \in Replies : NewRemoved(resp)
    \/ \E resp \in Replies : NewRegistered(resp)
    \/ \E op \in EventOps : EventCall(op)
    \/ \E resp \in Replies : EventReturn(resp)
    \/ StartHeartbeat
    \/ StopHeartbeat
    \/ Drop
    \/ \E t \in 1..MaxTasks : TaskTick(t)
    \/ \E t \in 1..MaxTasks : TaskSend(t)
    \/ \E t \in 1..MaxTasks : TaskCancel(t)
    \/ \E t \in 1..MaxTasks, resp \in Replies, due \in BOOLEAN : TaskReply(t, resp, due)

Spec == Init /\ [][Next]_vars


\* the runtime goes on polling a task that is running, and polls a task
\* that abort() has woken
RuntimeFairness ==
    \A t \in 1..MaxTasks : WF_vars(TaskSend(t)) /\ WF_vars(TaskCancel(t))

\* the lifecycle without the event operations, which leave the tasks alone
NextLive ==
    \/ \E g \in Games, raw \in RawNewOutcomes : FromGameName(g, raw)
    \/ \E g \in Games, raw \in RawNewOutcomes : NewBegin(g, raw)
    \/ \E resp \in Replies : NewRemoved(resp)
    \/ \E resp \in Replies : NewRegistered(resp)
    \/ StartHeartbeat
    \/ StopHeartbeat
    \/ Drop
    \/ \E t \in 1..MaxTasks : TaskTick(t)
    \/ \E t \in 1..MaxTasks : TaskSend(t)
    \/ \E t \in 1..MaxTasks : TaskCancel(t)
    \/ \E t \in 1..MaxTasks, resp \in Replies, due \in BOOLEAN : TaskReply(t, resp, due)

SpecLive == Init /\ [][NextLive]_vars /\ RuntimeFairness

-----------------------------------------------------------------------------
(* The interval of one heartbeat task, against a clock: the task is       *)
(* polled late, or its heartbeat request is slow, by any number of        *)
(* seconds                                                                *)

\* interval(Duration::from_secs(10))
Period == 10

\* MissedTickBehavior::Burst: the next deadline follows the missed one
next_timeout_burst(timeout, t, period) == timeout + period

\* MissedTickBehavior::Skip: the next deadline is the next one of the
\* original grid after the time t of the late tick
next_timeout(timeout, t, period) == t + period - ((t - timeout) % period)

\* time passes, whatever the task is waiting for
Elapse ==
    /\ now < MaxTime
    /\ now' = now + 1
    /\ UNCHANGED <<interval, beat>>
    /\ UNCHANGED <<codecVars, requestVars, facadeVars>>

\* interval.tick() completes once its deadline is reached and sets the
\* next deadline, by the missed-tick behaviour when it is late; the loop
\* then posts the heartbeat in the same poll
IntervalTick ==
    /\ beat.pc = "tick" /\ now >= interval.deadline
    /\ interval' = [deadline |->
                      IF now > interval.deadline
                      THEN next_timeout(interval.deadline, now, Period)
                      ELSE interval.deadline + Period]
    /\ beat' = [pc |-> "send", ticked |-> interval.deadline, last |-> now]
    /\ UNCHANGED now
    /\ UNCHANGED <<codecVars, requestVars, facadeVars>>

\* the heartbeat exchange ends, .ok() discards its result, and the loop
\* goes back to interval.tick()
HeartbeatDone ==
    /\ beat.pc = "send"
    /\ beat' = [beat EXCEPT !.pc = "tick"]
    /\ UNCHANGED <<now, interval>>
    /\ UNCHANGED <<codecVars, requestVars, facadeVars>>

InitTick == TimerIdle /\ FacadeInit /\ CodecIdle /\ RequestIdle

NextTick ==
    \/ Elapse
    \/ IntervalTick
    \/ HeartbeatDone

SpecTick == InitTick /\ [][NextTick]_vars

-----------------------------------------------------------------------------
(* send_data on the responses an engine, or anything else on the port,    *)
(* can give                                                               *)

RespKeys == {"error", "result", "data"}
RespValues == {JStr("boom"), JStr("ok"), JNum(42), JNum(-7), JNull,
               JBool(TRUE), JArr}

\* the objects of up to MaxMembers members, in every order of the members
ObjectBodies ==
    { ObjectText(ps) :
        ps \in UNION { [1..n -> RespKeys \X RespValues] : n \in 0..MaxMembers } }

OtherBodies ==
    { PageNotFound,
      PageNotFound \o <<Ws>>,
      <<>>,
      <<LBrace>>,
      <<LBrace, StrTok("error"), Colon>>,
      <<LBrace, StrTok("result"), Colon, StrTok("ok"), Comma, RBrace>>,
      <<LBrace, RBrace, Word("x")>>,
      <<Ws, LBrace, Ws, RBrace, Ws>>,
      <<Ws, LBrace, StrTok("result"), Ws, Colon, NumTok(42), RBrace>>,
      <<LBrack, RBrack>>,
      <<NumTok(42)>>,
      <<StrTok("boom")>>,
      <<Word("Internal"), Ws, Word("error")>> }

Responses == {TransportFailure} \cup { Body(b) : b \in ObjectBodies \cup OtherBodies }

CodecInit ==
    /\ preserve_order \in BOOLEAN
    /\ response \in Responses
    /\ decoded = NoResult

\* send_data returns (or panics) on the response it got
Decode ==
    /\ decoded = NoResult
    /\ decoded' = send_data(response, preserve_order)
    /\ UNCHANGED <<preserve_order, response, requestVars, facadeVars, timerVars>>

InitCodec == CodecInit /\ RequestIdle /\ FacadeInit /\ TimerIdle

NextCodec == Decode

SpecCodec == InitCodec /\ [][NextCodec]_vars

-----------------------------------------------------------------------------
(* The requests the raw client's methods and the request structs post *)

NoneBytes == [some |-> FALSE, v |-> 0]
Events == {"ev"}
MinValues == {NoneInt, Some(0)}
MaxValues == {NoneInt, Some(100)}
IconIds == {NoneInt, Some(1)}
ValueOptionals == {NoneBool, Some(TRUE), Some(FALSE)}
Frames == {NoneValue, Some(JNull), Some(JObj("image-data-128x36" :> JBytes(576)))}
HandlerLists == {<<>>, <<JStr("h1")>>, <<JStr("h2"), JStr("h1")>>}
DisplayNames == {NoneStr, Some("Test Game")}
Developers == {NoneStr, Some("dev")}
Timeouts == {NoneInt, Some(15000)}
Values == {0, 5}

ArgSets ==
    [op : {"register_game"}, game : Games, game_display_name : DisplayNames,
     developer : Developers, deinitialize_timer_length_ms : Timeouts]
    \cup [op : {"remove_game", "heartbeat"}, game : Games]
    \cup [op : {"remove_event", "GameEvent<()>::send"}, game : Games, event : Events]
    \cup [op : {"register_event", "RegisterEvent::send"}, game : Games, event : Events,
          min_value : MinValues, max_value : MaxValues, icon_id : IconIds,
          value_optional : ValueOptionals]
    \cup [op : {"bind_event"}, game : Games, event : Events,
          min_value : MinValues, max_value : MaxValues, icon_id : IconIds,
          value_optional : ValueOptionals, handlers : HandlerLists]
    \cup [op : {"game_event"}, game : Games, event : Events, value : Values,
          frame : Frames]
    \cup [op : {"GameEvent<FrameContainer>::send"}, game : Games, event : Events,
          image_128x36 : {NoneBytes, Some(576)}, image_128x40 : {NoneBytes, Some(640)},
          image_128x48 : {NoneBytes, Some(768)}, image_128x52 : {NoneBytes, Some(852)}]

RequestInit ==
    /\ args \in ArgSets
    /\ request = NoRequest

RawRegisterGame ==
    /\ args.op = "register_game" /\ request = NoRequest
    /\ request' = register_game(args.game, args.game_display_name, args.developer,
                                args.deinitialize_timer_length_ms)
    /\ UNCHANGED <<args, codecVars, facadeVars, timerVars>>

RawRemoveGame ==
    /\ args.op = "remove_game" /\ request = NoRequest
    /\ request' = remove_game(args.game)
    /\ UNCHANGED <<args, codecVars, facadeVars, timerVars>>

RawHeartbeat ==
    /\ args.op = "heartbeat" /\ request = NoRequest
    /\ request' = heartbeat_request(args.game)
    /\ UNCHANGED <<args, codecVars, facadeVars, timerVars>>

RawRegisterEvent ==
    /\ args.op = "register_event" /\ request = NoRequest
    /\ request' = register_event(args.game, args.event, args.min_value,
                                 args.max_value, args.icon_id, args.value_optional)
    /\ UNCHANGED <<args, codecVars, facadeVars, timerVars>>

RawRemoveEvent ==
    /\ args.op = "remove_event" /\ request = NoRequest
    /\ request' = remove_event(args.game, args.event)
    /\ UNCHANGED <<args, codecVars, facadeVars, timerVars>>

RawBindEvent ==
    /\ args.op = "bind_event" /\ request = NoRequest
    /\ request' = bind_event(args.game, args.event, args.min_value, args.max_value,
                             args.icon_id, args.value_optional, args.handlers)
    /\ UNCHANGED <<args, codecVars, facadeVars, timerVars>>

RawGameEvent ==
    /\ args.op = "game_event" /\ request = NoRequest
    /\ request' = game_event(args.game, args.event, args.value, args.frame)
    /\ UNCHANGED <<args, codecVars, facadeVars, timerVars>>

\* RegisterEvent { .. }.send(client)
StructRegisterEvent ==
    /\ args.op = "RegisterEvent::send" /\ request = NoRequest
    /\ request' = SendRegisterEvent(
                      [game |-> args.game, event |-> args.event,
                       min_value |-> args.min_value, max_value |-> args.max_value,
                       icon_id |-> args.icon_id,
                       value_optional |-> args.value_optional])
    /\ UNCHANGED <<args, codecVars, facadeVars, timerVars>>

\* GameEvent { data: (), .. }.send(client)
StructGameEventUnit ==
    /\ args.op = "GameEvent<()>::send" /\ request = NoRequest
    /\ request' = SendGameEventUnit([game |-> args.game, event |-> args.event])
    /\ UNCHANGED <<args, codecVars, facadeVars, timerVars>>

\* GameEvent { data: FrameContainer { .. }, .. }.send(client)
StructGameEventFrame ==
    /\ args.op = "GameEvent<FrameContainer>::send" /\ request = NoRequest
    /\ request' = SendGameEventFrame(
                      [game |-> args.game, event |-> args.event,
                       data |-> [frame |-> [image_128x36 |-> args.image_128x36,
                                            image_128x40 |-> args.image_128x40,
                                            image_128x48 |-> args.image_128x48,
                                            image_128x52 |-> args.image_128x52]]])
    /\ UNCHANGED <<args, codecVars, facadeVars, timerVars>>

RequestNext ==
    \/ RawRegisterGame \/ RawRemoveGame \/ RawHeartbeat \/ RawRegisterEvent
    \/ RawRemoveEvent \/ RawBindEvent \/ RawGameEvent
    \/ StructRegisterEvent \/ StructGameEventUnit \/ StructGameEventFrame

InitRequest == RequestInit /\ CodecIdle /\ FacadeInit /\ TimerIdle

SpecRequest == InitRequest /\ [][RequestNext]_vars


-----------------------------------------------------------------------------
(* Properties *)

\* start_heartbeat has been called on the client
Started == tasks[1].st # "unspawned"

\* C1: once the client is dropped, every task it spawned has finished or
\* has been told to stop, whatever start_heartbeat and stop_heartbeat calls
\* came before. (Fails: a second start_heartbeat detaches the first task.)
C1_NoTaskOutlivesClient ==
    client = "dropped" =>
        \A t \in 1..MaxTasks : Running(tasks[t]) => tasks[t].abort

C3_StopBeforeStart ==
    [][(stops' = stops + 1 /\ ~Started) =>
          /\ result'.op = "stop_heartbeat"
          /\ result'.tag = "Err" /\ result'.kind = "context"
          /\ tasks' = tasks
          /\ heartbeat = 0 /\ heartbeat' = 0
          /\ game' = game /\ client' = client]_vars

C3_Witness ==
    /\ client = "live" /\ ~Started /\ heartbeat = 0
    /\ result.op = "stop_heartbeat" /\ result.tag = "Err"
    /\ stops >= 1

\* C4: new returns a client exactly when register_game succeeds; whatever
\* way remove_game failed, register_game is still called. (Fails: the panic
\* of send_data on an empty object, see C6, ends new inside remove_game.)
C4_NewIffRegisterSucceeds ==
    result.op = "new" =>
        /\ result.rm # "None" => Len(result.posts) = 2
        /\ Len(result.posts) = 2 =>
             (result.tag = "Ok" <=> send_data(reply, preserve_order).tag = "Ok")
        /\ result.tag = "Ok" <=> client \in {"live", "dropped"}

\* the string a value is returned as, value by value
ExpectedText(v) ==
    CASE v = JStr("boom") -> "boom"
      [] v = JStr("ok") -> "ok"
      [] v = JNum(42) -> "42"
      [] v = JNum(-7) -> "-7"
      [] v = JNull -> "null"
      [] v = JBool(TRUE) -> "true"
      [] v = JArr -> "[]"

\* C5: on an object with one key, send_data fails with the value when the
\* key is "error" and returns the value otherwise; a string value verbatim,
\* any other value as its JSON text.
C5_SingleKeyEnvelope ==
    decoded # NoResult =>
        \A k \in RespKeys, v \in RespValues :
            response = Body(ObjectText(<< <<k, v>> >>)) =>
                decoded = IF k = "error" THEN Err("engine", ExpectedText(v))
                                         ELSE Ok(ExpectedText(v))

C5_Witness ==
    \/ /\ response = Body(ObjectText(<< <<"result", JNum(42)>> >>))
       /\ decoded = Ok("42")
    \/ /\ response = Body(ObjectText(<< <<"error", JStr("boom")>> >>))
       /\ decoded = Err("engine", "boom")

\* a body that is not a JSON object, or is the empty object
Malformed(text) == ~from_str(text).ok \/ from_str(text).map = <<>>

\* C6: on a body that is {} or is not valid JSON, send_data returns an
\* error to its caller. (Fails: on {} the unwrap of the first entry panics.)
C6_MalformedIsAnError ==
    (decoded # NoResult /\ response.ok /\ response.text # PageNotFound
       /\ Malformed(response.text)) =>
        decoded.tag = "Err"

\* the key of an optional field is in the object exactly when the option
\* holds a value, and then with that value
OptionalField(obj, key, opt, val) ==
    /\ key \in DOMAIN obj <=> opt.some
    /\ key \in DOMAIN obj => obj[key] = val /\ (opt.some \/ obj[key] # JNull)

\* C7: the body of every request with optional fields has a key for an
\* optional field exactly when its value is present, holding that value,
\* and never a null for an absent one; for the raw client's methods and for
\* the request structs' own send. (Fails: RegisterEvent serializes None as
\* null.)
C7_OptionalFieldsOmitted ==
    request # NoRequest =>
        /\ args.op \in {"register_event", "RegisterEvent::send", "bind_event"} =>
             /\ OptionalField(request.data, "min_value", args.min_value,
                              JNum(args.min_value.v))
             /\ OptionalField(request.data, "max_value", args.max_value,
                              JNum(args.max_value.v))
             /\ OptionalField(request.data, "icon_id", args.icon_id,
                              JNum(args.icon_id.v))
             /\ OptionalField(request.data, "value_optional", args.value_optional,
                              JBool(args.value_optional.v))
        /\ args.op = "register_game" =>
             /\ OptionalField(request.data, "game_display_name",
                              args.game_display_name, JStr(args.game_display_name.v))
             /\ OptionalField(request.data, "developer", args.developer,
                              JStr(args.developer.v))
             /\ OptionalField(request.data, "deinitialize_timer_length_ms",
                              args.deinitialize_timer_length_ms,
                              JNum(args.deinitialize_timer_length_ms.v))
        /\ args.op = "game_event" =>
             OptionalField(request.data["data"].o, "frame", args.frame, args.frame.v)

\* the endpoint of each operation
ExpectedEndpoint(op) ==
    CASE op = "register_game" -> "game_metadata"
      [] op = "remove_game" -> "remove_game"
      [] op = "heartbeat" -> "game_heartbeat"
      [] op \in {"register_event", "RegisterEvent::send"} -> "register_game_event"
      [] op = "remove_event" -> "remove_game_event"
      [] op = "bind_event" -> "bind_game_event"
      [] op \in {"game_event", "GameEvent<()>::send",
                 "GameEvent<FrameContainer>::send"} -> "game_event"

\* C8: every operation posts to the endpoint of its request kind, whatever
\* its arguments.
C8_FixedEndpoints ==
    request # NoRequest => request.endpoint = ExpectedEndpoint(args.op)

C8_Witness ==
    /\ args.op = "game_event" /\ args.frame.some
    /\ request.endpoint = "game_event"

\* C9: a heartbeat exchange of the task that fails is discarded: no caller
\* sees it, and the task goes on to its next tick. (Fails: the panic of
\* send_data on an empty object, see C6, ends the task.)
C9_FailedHeartbeatDiscarded ==
    [][\A t \in 1..MaxTasks, resp \in Replies, due \in BOOLEAN :
          (TaskReply(t, resp, due) /\ send_data(resp, preserve_order).tag # "Ok") =>
              /\ tasks'[t].st \in {"tick", "polling"}
              /\ result' = result]_vars

\* C10: an event operation returns the outcome of its exchange: the
\* engine's error message as the failure, the engine's value as the
\* success, and success for no other response.
C10_EventOutcome ==
    result.op \in EventOps =>
        /\ reply = Body(ObjectText(<< <<"error", JStr("boom")>> >>)) =>
             (result.tag = "Err" /\ result.msg = "boom")
        /\ reply = Body(ObjectText(<< <<"result", JStr("ok")>> >>)) =>
             (result.tag = "Ok" /\ result.msg = "ok")
        /\ reply = Body(ObjectText(<< <<"result", JNum(42)>> >>)) =>
             (result.tag = "Ok" /\ result.msg = "42")
        /\ result.tag = "Ok" =>
             reply \in { Body(ObjectText(<< <<"result", JStr("ok")>> >>)),
                         Body(ObjectText(<< <<"result", JNum(42)>> >>)) }

C10_Witness ==
    /\ result.op = "trigger_event"
    /\ reply = Body(ObjectText(<< <<"error", JStr("boom")>> >>))
    /\ result.tag = "Err" /\ result.msg = "boom"


\* C11: on the body that is exactly the text Page not found, send_data
\* fails with the endpoint error, the text being compared before any JSON
\* parsing, so that the outcome is not a parse error; no other body gives
\* the endpoint error.
C11_PageNotFoundFirst ==
    decoded # NoResult =>
        /\ response = Body(PageNotFound) =>
             decoded = Err("endpoint", "Endpoint not found")
        /\ decoded.kind = "endpoint" => response = Body(PageNotFound)
        /\ response = Body(PageNotFound \o <<Ws>>) => decoded.kind = "json"

C11_Witness ==
    /\ response = Body(PageNotFound)
    /\ decoded.tag = "Err" /\ decoded.kind = "endpoint"

\* the keys of the members of an object text
TextKeys(text) ==
    { text[i].s : i \in { j \in 1..(Len(text) - 1) :
                            text[j].t = "str" /\ text[j + 1].t = "colon" } }

\* C18: on an object with more than one key, send_data never returns
\* success. (Fails: the first entry is decoded and the others are ignored.)
C18_MultiKeyRejected ==
    (decoded # NoResult /\ response.ok /\ from_str(response.text).ok
       /\ Cardinality(TextKeys(response.text)) > 1) =>
        decoded.tag # "Ok"


\* the POSTs of a sequence of requests that go to one endpoint
PostsTo(posts, endpoint) ==
    { i \in 1..Len(posts) : posts[i].endpoint = endpoint }

\* the facade calls: one POST per event operation and, for a new that got
\* its raw client, one remove_game and at most one register_game
C12_OnePostPerCall ==
    /\ call.op \in EventOps => call.posts = <<EventRequest(call.op, game)>>
    /\ result.op \in EventOps => result.posts = <<EventRequest(result.op, game)>>
    /\ (call.op = "new" \/ (result.op = "new" /\ result.kind # "discovery")) =>
         LET posts == IF call.op = "new" THEN call.posts ELSE result.posts
         IN /\ Cardinality(PostsTo(posts, RemoveGamePath)) = 1
            /\ Cardinality(PostsTo(posts, RegisterGamePath)) <= 1
            /\ Len(posts) <= 2

\* the heartbeat task: a POST is issued only by a poll that follows a tick,
\* and the exchange of a POST ends without another POST
C12_OnePostPerTick ==
    \A t \in 1..MaxTasks :
        /\ (tasks'[t].req # NoRequest /\ tasks'[t].req # tasks[t].req) =>
             (tasks[t].st = "polling" /\ tasks[t].req = NoRequest)
        /\ tasks[t].st = "send" =>
             \/ tasks'[t].st = "send" /\ tasks'[t].req = tasks[t].req
             \/ tasks'[t].st # "send" /\ tasks'[t].req = NoRequest

\* C12: no layer retries. An event operation issues exactly one POST and
\* new exactly one remove_game and at most one register_game, whatever way
\* the exchange fails; a tick of the heartbeat task issues at most one POST.
C12_NoRetries == []C12_OnePostPerCall /\ [][C12_OnePostPerTick]_vars

C12_Witness ==
    /\ result.op = "bind_event" /\ Len(result.posts) = 1
    /\ result.tag = "Err" /\ result.kind = "transport"
    /\ \E t \in 1..MaxTasks : tasks[t].st = "tick" /\ tasks[t].game = game

\* C13: start_heartbeat on a client whose handle is of a running task
\* spawns a new task and puts its handle in the field without cancelling
\* the task of the old handle: both run, and the handle is of the new one.
C13_SecondStartKeepsFirst ==
    [][\A t \in 1..MaxTasks :
          (/\ tasks[t].st = "unspawned" /\ tasks'[t].st # "unspawned"
           /\ heartbeat # 0
           /\ Running(tasks[heartbeat]) /\ ~tasks[heartbeat].abort) =>
              /\ heartbeat' = t /\ heartbeat' # heartbeat
              /\ tasks'[heartbeat] = tasks[heartbeat]
              /\ tasks'[t] = [st |-> "tick", abort |-> FALSE,
                              game |-> game, req |-> NoRequest]
              /\ \A u \in 1..MaxTasks : u # t => tasks'[u] = tasks[u]]_vars

C13_Witness ==
    /\ heartbeat = 2
    /\ tasks[1].st = "send" /\ ~tasks[1].abort
    /\ tasks[2].st = "send" /\ ~tasks[2].abort
    /\ tasks[1].req = heartbeat_request(game)
    /\ tasks[2].req = heartbeat_request(game)

\* C14: an event operation, in its call and in its return, with success
\* or with failure, leaves the heartbeat handle, the tasks, the game and
\* the client as they were.
C14_EventOpsKeepLifecycle ==
    [][(call' # call /\ (call.op \in EventOps \/ call'.op \in EventOps)) =>
          /\ heartbeat' = heartbeat
          /\ tasks' = tasks
          /\ game' = game
          /\ client' = client
          /\ stops' = stops]_vars

C14_Witness ==
    /\ result.op \in EventOps /\ result.tag = "Err"
    /\ call = Idle /\ client = "live"
    /\ heartbeat # 0 /\ Running(tasks[heartbeat]) /\ ~tasks[heartbeat].abort

\* inside new: remove_game is the one request until its exchange has ended,
\* register_game follows it, and there is no handle and no task
C17_Construction ==
    /\ (call.op = "new" /\ call.stage = "remove_game") =>
         (call.posts = <<remove_game(game)>> /\ call.rm = "None")
    /\ (call.op = "new" /\ call.stage = "register_game") =>
         /\ call.rm \in {"Ok", "Err"}
         /\ Len(call.posts) = 2
         /\ call.posts[1] = remove_game(game)
         /\ call.posts[2].endpoint = RegisterGamePath
         /\ call.posts[2].data["game"] = JStr(game)
    /\ client = "building" =>
         (call.op = "new" /\ heartbeat = 0 /\ \A t \in 1..MaxTasks : tasks[t] = Unspawned)

\* new returns: no handle, no task
C17_Return ==
    (call.op = "new" /\ call'.op # "new") =>
        /\ heartbeat' = 0
        /\ \A t \in 1..MaxTasks : tasks'[t] = Unspawned
        /\ result'.op = "new"

\* C17: in new, the remove_game exchange has ended, in success or failure,
\* before register_game is issued for the same game; no other request is
\* sent; and when new returns there is no heartbeat handle and no task.
C17_NewOrdered == []C17_Construction /\ [][C17_Return]_vars

C17_Witness ==
    /\ result.op = "new" /\ result.tag = "Ok" /\ result.rm = "Err"
    /\ Len(result.posts) = 2
    /\ client = "live" /\ heartbeat = 0 /\ ~Started

\* a heartbeat request of a task, or the request of an event operation, is
\* in flight
Sending ==
    \/ call.op \in EventOps
    \/ \E t \in 1..MaxTasks : tasks[t].req # NoRequest

\* C19: a heartbeat or event request is sent only after a register_game
\* exchange of this client has succeeded. (Fails: from_game_name returns a
\* client that has sent nothing, and its operations send all the same.)
C19_RegisteredFirst == Sending => registered

\* the tasks that run and have not been told to stop
Alive(ts) == { t \in 1..MaxTasks : Running(ts[t]) /\ ~ts[t].abort }

\* the second start of start, stop, start: the new task is the one task
\* that runs for the game, and the handle is its handle
C20_Restart ==
    (tasks[2].st = "unspawned" /\ tasks'[2].st # "unspawned"
       /\ heartbeat = 1 /\ stops >= 1) =>
        /\ heartbeat' = 2
        /\ tasks'[2] = [st |-> "tick", abort |-> FALSE,
                        game |-> game, req |-> NoRequest]
        /\ tasks'[1] = tasks[1]
        /\ Alive(tasks') = {2}

\* the stop after it: it succeeds and acts on the new task
C20_StopAfterRestart ==
    (stops' = stops + 1 /\ heartbeat = 2 /\ Alive(tasks) \subseteq {2}) =>
        /\ result'.op = "stop_heartbeat" /\ result'.tag = "Ok"
        /\ heartbeat' = 2
        /\ tasks'[1] = tasks[1]
        /\ Running(tasks[2]) => tasks'[2].abort
        /\ Alive(tasks') = {}

\* C20: after start_heartbeat, stop_heartbeat, start_heartbeat one task is
\* running for the bound game, and the next stop_heartbeat succeeds and
\* cancels that task, not the one cancelled before.
C20_RestartAfterStop == [][C20_Restart /\ C20_StopAfterRestart]_vars

C20_Witness ==
    /\ heartbeat = 2 /\ stops = 1
    /\ result.op = "stop_heartbeat" /\ result.tag = "Ok"
    /\ tasks[1].st = "cancelled"
    /\ tasks[2].st = "cancelled"


\* stop_heartbeat returns at once: the task is where it was, and is
\* dropped in a step of its own; a cancelled task stays cancelled and
\* has no request in flight
C15_StopDoesNotWait ==
    \A t \in 1..MaxTasks :
        /\ stops' = stops + 1 => tasks'[t].st = tasks[t].st
        /\ tasks[t].st = "cancelled" =>
             (tasks'[t] = tasks[t] /\ tasks[t].req = NoRequest)
        /\ (tasks[t].abort /\ tasks[t].st \in {"tick", "send"}) =>
             tasks'[t].st \in {tasks[t].st, "cancelled"}

\* C15: stop_heartbeat does not wait for the task; the task it aborted is
\* cancelled at the await it is suspended in or reaches next, and a
\* cancelled task never runs or sends again.
C15_StoppedTaskEnds ==
    /\ [][C15_StopDoesNotWait]_vars
    /\ \A t \in 1..MaxTasks : tasks[t].abort ~> (tasks[t].st = "cancelled")

C15_Witness ==
    /\ heartbeat = 1 /\ tasks[2].st = "unspawned"
    /\ result.op = "stop_heartbeat" /\ result.tag = "Ok" /\ stops = 1
    /\ tasks[1].st = "cancelled" /\ tasks[1].req = NoRequest


\* a tick that sends a heartbeat: it is in a later period of the interval
\* than the heartbeat before it, and the next deadline is the first one of
\* the grid after now, however many deadlines were missed
C16_Tick ==
    (beat.pc = "tick" /\ beat'.pc = "send") =>
        /\ beat'.last = now
        /\ beat.last >= 0 => (beat'.last \div Period) > (beat.last \div Period)
        /\ interval'.deadline > now
        /\ interval'.deadline - Period <= now
        /\ interval'.deadline % Period = 0

\* C16: the interval skips missed ticks: a task that is late by one or
\* more deadlines ticks once and waits for the next deadline of the
\* 10-second grid, so it sends no two heartbeats in one period.
C16_SkipMissedTicks == [][C16_Tick]_vars

C16_Witness ==
    /\ beat.pc = "send"
    /\ beat.ticked = Period /\ beat.last = 3 * Period + 2
    /\ interval.deadline = 4 * Period


====
